---- MODULE Spec2Model ----
(***************************************************************************)
(* The organization app of ColdFront: the OrganizationLevel chain and the  *)
(* Organization tree (coldfront/core/organization/models.py), as a state   *)
(* machine over the two tables and the class-level switches.               *)
(*                                                                         *)
(* A row is a record; a table is a function from primary keys to rows.     *)
(* Every Python method that writes is one action: the sequence of saves    *)
(* and deletes it performs is threaded through a "world" record, so that   *)
(* an exception raised half way leaves exactly the writes made before it   *)
(* (the methods open no transaction).                                      *)
(***************************************************************************)
EXTENDS Integers, Sequences, FiniteSets, TLC

\* ------------------------------------------------------------------ bounds
\* OrganizationLevel rows ever inserted (primary keys 1..MaxLevels)
MaxLevels == 3
\* values of OrganizationLevel.level range over 1..MaxLevelValue
MaxLevelValue == 3
\* Organization rows ever inserted (primary keys 1..MaxOrgs)
MaxOrgs == 3

\* a NULL foreign key / Python None
None == 0

\* names given to OrganizationLevels: names are only ever compared for
\* equality, so the k-th row inserted is named LevelName(k) unless the caller
\* repeats the name of a stored row
LevelName(k) == "Level" \o ToString(k)
LevelValues == 1..MaxLevelValue

VARIABLES
    orgLevels,      \* table OrganizationLevel: pk -> [name, level, parent, export_to_xdmod]
    orgs,           \* table Organization: pk -> [parent, organization_level, code, shortname, longname]
    olDisable,      \* OrganizationLevel._disable_validation_checks
    orgDisable,     \* Organization._disable_validation_checks
    cachedUnknown,  \* Organization.CACHED_TOPLEVEL_UNKNOWN_ORG (a pk, or None)
    nextLevelPk,    \* next primary key of OrganizationLevel
    nextOrgPk,      \* next primary key of Organization
    dir2org,        \* table Directory2Organization: directory_string -> organization pk
    userOrgs,       \* userprofile.organizations of one stored UserProfile: a set of pks
    user2Orgs,      \* userprofile.organizations of a second stored UserProfile
    projOrgs,       \* project.organizations of one stored Project: a set of pks
    last            \* the last call: what was called, with what, and how it ended

vars == <<orgLevels, orgs, olDisable, orgDisable, cachedUnknown,
          nextLevelPk, nextOrgPk, dir2org, userOrgs, user2Orgs, projOrgs, last>>

\* the mutable program state as one value, threaded through a method's steps
World == [lv |-> orgLevels, og |-> orgs, dis |-> olDisable, odis |-> orgDisable,
          cache |-> cachedUnknown, nlp |-> nextLevelPk, nop |-> nextOrgPk,
          d2o |-> dir2org, uo |-> userOrgs, uo2 |-> user2Orgs, po |-> projOrgs]

\* the outcome of a step: the world after it and the exception raised ("" if none)
Ok(w) == [w |-> w, exc |-> "", ret |-> None]
Returns(w, v) == [w |-> w, exc |-> "", ret |-> v]
Raises(w, e) == [w |-> w, exc |-> e, ret |-> None]

\* ------------------------------------------------ OrganizationLevel queries

\* an OrganizationLevel row
OrganizationLevel(name, level, parent) ==
    [name |-> name, level |-> level, parent |-> parent, export_to_xdmod |-> TRUE]

\* Meta.ordering = ['-level']: the first row of a queryset over pks S
FirstLevel(lv, S) == CHOOSE p \in S : \A q \in S : lv[q].level <= lv[p].level

\* OrganizationLevel.objects.filter(parent__isnull=True)
ParentlessLevels(lv) == {p \in DOMAIN lv : lv[p].parent = None}

\* OrganizationLevel.objects.filter(parent=p)
ChildLevels(lv, p) == {q \in DOMAIN lv : lv[q].parent = p}

root_organization_level(lv) ==
    IF ParentlessLevels(lv) # {} THEN FirstLevel(lv, ParentlessLevels(lv)) ELSE None

child_organization_level(lv, p) ==
    IF ChildLevels(lv, p) # {} THEN FirstLevel(lv, ChildLevels(lv, p)) ELSE None

\* qset.aggregate(Max('level'))
MaxLevelOf(lv) == CHOOSE m \in {lv[p].level : p \in DOMAIN lv} :
                     \A p \in DOMAIN lv : lv[p].level <= m

\* --------------------------------------------- OrganizationLevel validation

\* Model.clean_fields: the parent, when given, is a stored row
LevelCleanFields(lv, rec) == rec.parent = None \/ rec.parent \in DOMAIN lv

\* a clean that checks a row against its parent only
LevelClean_ParentOnly(lv, dis, rec) ==
    \/ dis
    \/ rec.parent # None => ~(lv[rec.parent].level <= rec.level)

\* OrganizationLevel.clean: TRUE when it returns, FALSE when it raises
LevelClean(lv, dis, rec) ==
    \/ dis
    \/ IF rec.parent # None
       THEN ~(lv[rec.parent].level <= rec.level)
       ELSE \/ DOMAIN lv = {}
            \/ /\ ~(MaxLevelOf(lv) > rec.level)
               /\ ParentlessLevels(lv) = {}

\* a validate_unique as if parent were a plain ForeignKey, not unique
LevelValidateUnique_PlainParent(lv, pk, rec) ==
    \A q \in DOMAIN lv \ {pk} :
        /\ lv[q].name # rec.name
        /\ lv[q].level # rec.level

\* Model.validate_unique over the unique fields name, level and parent
\* (a NULL parent is not compared); pk is the row being saved, None if new
LevelValidateUnique(lv, pk, rec) ==
    \A q \in DOMAIN lv \ {pk} :
        /\ lv[q].name # rec.name
        /\ lv[q].level # rec.level
        /\ rec.parent # None => lv[q].parent # rec.parent

\* full_clean: clean_fields, clean and validate_unique all run, any error raises
LevelFullClean(lv, dis, pk, rec) ==
    /\ LevelCleanFields(lv, rec)
    /\ LevelCleanFields(lv, rec) => LevelClean(lv, dis, rec)
    /\ LevelValidateUnique(lv, pk, rec)

\* a save that writes the row without its parent
LevelSave_DropParent(w, pk, rec) ==
    IF ~LevelFullClean(w.lv, w.dis, pk, rec)
    THEN Raises(w, "ValidationError")
    ELSE IF pk = None
         THEN Returns([w EXCEPT !.lv = (w.nlp :> [rec EXCEPT !.parent = None]) @@ w.lv,
                                !.nlp = w.nlp + 1], w.nlp)
         ELSE Returns([w EXCEPT !.lv = [w.lv EXCEPT ![pk] = rec]], pk)

\* OrganizationLevel.save of a row: pk = None inserts under a new key
LevelSave(w, pk, rec) ==
    IF ~LevelFullClean(w.lv, w.dis, pk, rec)
    THEN Raises(w, "ValidationError")
    ELSE IF pk = None
         THEN Returns([w EXCEPT !.lv = (w.nlp :> rec) @@ w.lv, !.nlp = w.nlp + 1], w.nlp)
         ELSE Returns([w EXCEPT !.lv = [w.lv EXCEPT ![pk] = rec]], pk)

\* Organization.objects.filter(organization_level=p)
OrgsAtLevel(og, p) == {o \in DOMAIN og : og[o].organization_level = p}

\* a delete as if Organization.organization_level did not protect the level
LevelDelete_LevelsOnly(w, pk) ==
    IF ChildLevels(w.lv, pk) # {}
    THEN Raises(w, "ProtectedError")
    ELSE Ok([w EXCEPT !.lv = [q \in DOMAIN w.lv \ {pk} |-> w.lv[q]]])

\* Model.delete under on_delete=PROTECT of OrganizationLevel.parent and of
\* Organization.organization_level
LevelDelete(w, pk) ==
    IF ChildLevels(w.lv, pk) # {} \/ OrgsAtLevel(w.og, pk) # {}
    THEN Raises(w, "ProtectedError")
    ELSE Ok([w EXCEPT !.lv = [q \in DOMAIN w.lv \ {pk} |-> w.lv[q]]])

\* self.update_orglevel_from_dict({'level': level}): the test before the
\* assignment compares self.name with the level, so the level is always
\* assigned and the row always saved; the changed fields are returned
update_orglevel_from_dict(w, self, level) ==
    LET s == LevelSave(w, self, [w.lv[self] EXCEPT !.level = level]) IN
    IF s.exc # "" THEN s ELSE Returns(s.w, level)

\* ---------------------------------------- hierarchy list and its validation

\* a walk that stops at the root
HierarchyFrom_RootOnly(lv, p, validate) == [list |-> <<p>>, raised |-> FALSE]

\* the loop of generate_orglevel_hierarchy_list: last_orglevel and its
\* successive first children; "raised" when validate finds several children
RECURSIVE HierarchyFrom(_, _, _)
HierarchyFrom(lv, p, validate) ==
    LET qset == ChildLevels(lv, p) IN
    IF qset = {} THEN [list |-> <<p>>, raised |-> FALSE]
    ELSE IF validate /\ Cardinality(qset) > 1 THEN [list |-> <<p>>, raised |-> TRUE]
    ELSE LET t == HierarchyFrom(lv, FirstLevel(lv, qset), validate) IN
         [list |-> <<p>> \o t.list, raised |-> t.raised]

generate_orglevel_hierarchy_list(lv, validate) ==
    LET qset == ParentlessLevels(lv) IN
    IF qset = {} THEN [list |-> <<>>, raised |-> FALSE]
    ELSE IF validate /\ Cardinality(qset) > 1 THEN [list |-> <<>>, raised |-> TRUE]
    ELSE HierarchyFrom(lv, FirstLevel(lv, qset), validate)

\* a loop over the list that compares the names only
HierarchyRowsOk_NamesOnly(lv, list, i) ==
    \A a \in 1..i : lv[list[a]].name \notin {lv[list[j]].name : j \in 1..(a - 1)}

\* the for loop of validate_orglevel_hierarchy over the first i rows of the
\* list: TRUE when no row raises (lastlevel > level, name not seen before)
RECURSIVE HierarchyRowsOk(_, _, _)
HierarchyRowsOk(lv, list, i) ==
    IF i = 0 THEN TRUE
    ELSE /\ HierarchyRowsOk(lv, list, i - 1)
         /\ i > 1 => lv[list[i - 1]].level > lv[list[i]].level
         /\ lv[list[i]].name \notin {lv[list[j]].name : j \in 1..(i - 1)}

\* what validate_orglevel_hierarchy returns in ret when it has issued its
\* warning that disable_validation_checks is set
Warned == 1

\* validate_orglevel_hierarchy: the switch is read for the warning only, the
\* checks are the same either way
validate_orglevel_hierarchy(w) ==
    LET lv == w.lv
        warning == IF w.dis THEN Warned ELSE None
        raise == [w |-> w, exc |-> "ValidationError", ret |-> warning]
    IN
    IF Cardinality(DOMAIN lv) = 0 THEN Returns(w, warning)
    ELSE LET h == generate_orglevel_hierarchy_list(lv, TRUE) IN
         IF h.raised THEN raise
         ELSE IF Cardinality(DOMAIN lv) # Len(h.list) THEN raise
         ELSE IF ~HierarchyRowsOk(lv, h.list, Len(h.list)) THEN raise
         ELSE Returns(w, warning)

\* ------------------------------------------------------------ Organization

\* an Organization row
Organization(parent, organization_level, code, shortname, longname) ==
    [parent |-> parent, organization_level |-> organization_level,
     code |-> code, shortname |-> shortname, longname |-> longname]

\* Organization.objects.filter(parent=p), or parent__isnull=True for None
OrgChildren(og, p) == {o \in DOMAIN og : og[o].parent = p}

\* Model.clean_fields: organization_level is null=False, and both foreign
\* keys must name stored rows
OrgCleanFields(w, rec) ==
    /\ rec.organization_level # None
    /\ rec.organization_level \in DOMAIN w.lv
    /\ rec.parent = None \/ rec.parent \in DOMAIN w.og

\* a clean that only wants the parent at some higher level
OrgClean_AnyHigherParent(w, rec) ==
    IF w.odis THEN ""
    ELSE IF rec.organization_level = None THEN "RelatedObjectDoesNotExist"
    ELSE LET orglevel_obj == w.lv[rec.organization_level] IN
         IF orglevel_obj.parent # None
         THEN IF rec.parent = None THEN "ValidationError"
              ELSE IF w.lv[w.og[rec.parent].organization_level].level <= orglevel_obj.level
                   THEN "ValidationError" ELSE ""
         ELSE IF rec.parent # None THEN "ValidationError" ELSE ""

\* Organization.clean: "" when it returns, else the exception it raises.
\* Reading self.organization_level of a row without one raises
\* RelatedObjectDoesNotExist, which is no ValidationError.
OrgClean(w, rec) ==
    IF w.odis THEN ""
    ELSE IF rec.organization_level = None THEN "RelatedObjectDoesNotExist"
    ELSE LET orglevel_obj == w.lv[rec.organization_level]
             orglevel == orglevel_obj.level
             orglevel_parent == orglevel_obj.parent
         IN IF orglevel_parent # None
            THEN IF rec.parent = None THEN "ValidationError"
                 ELSE LET parent_orglevel ==
                              w.lv[w.og[rec.parent].organization_level].level
                      IN IF parent_orglevel <= orglevel THEN "ValidationError"
                         ELSE IF parent_orglevel # w.lv[orglevel_parent].level
                              THEN "ValidationError"
                              ELSE ""
            ELSE IF rec.parent # None THEN "ValidationError" ELSE ""

\* Model.validate_unique over the UniqueConstraints without a condition:
\* (code, parent), (shortname, parent), (longname, parent); a check with a
\* NULL member is skipped
OrgValidateUnique(og, pk, rec) ==
    rec.parent # None =>
        \A o \in OrgChildren(og, rec.parent) \ {pk} :
            /\ og[o].code # rec.code
            /\ og[o].shortname # rec.shortname
            /\ og[o].longname # rec.longname

\* the UniqueConstraints with condition parent IS NULL, enforced by the
\* database when the row is written
OrgNullParentUnique(og, pk, rec) ==
    rec.parent = None =>
        \A o \in OrgChildren(og, None) \ {pk} :
            /\ og[o].code # rec.code
            /\ og[o].shortname # rec.shortname
            /\ og[o].longname # rec.longname

\* Organization.save: full_clean (clean runs even when clean_fields failed),
\* then the write; pk = None inserts under a new key
OrgSave(w, pk, rec) ==
    LET c == OrgClean(w, rec) IN
    IF c \notin {"", "ValidationError"} THEN Raises(w, c)
    ELSE IF ~OrgCleanFields(w, rec) \/ c # "" \/ ~OrgValidateUnique(w.og, pk, rec)
    THEN Raises(w, "ValidationError")
    ELSE IF ~OrgNullParentUnique(w.og, pk, rec) THEN Raises(w, "IntegrityError")
    ELSE IF pk = None
         THEN Returns([w EXCEPT !.og = (w.nop :> rec) @@ w.og, !.nop = w.nop + 1], w.nop)
         ELSE Returns([w EXCEPT !.og = [w.og EXCEPT ![pk] = rec]], pk)

\* Model.delete of the stored Organization pk: on_delete=PROTECT of
\* Organization.parent refuses while a child row names it; the
\* Directory2Organization rows (on_delete=CASCADE) and the rows linking it to
\* users and projects go with it. The class attribute that caches the
\* top-level Unknown Organization is not touched.
OrgDelete(w, pk) ==
    IF OrgChildren(w.og, pk) # {} THEN Raises(w, "ProtectedError")
    ELSE Ok([w EXCEPT !.og = [o \in DOMAIN w.og \ {pk} |-> w.og[o]],
                      !.d2o = [d \in {e \in DOMAIN w.d2o : w.d2o[e] # pk} |-> w.d2o[d]],
                      !.uo = @ \ {pk}, !.uo2 = @ \ {pk}, !.po = @ \ {pk}])

\* a name taken as requested, used or not
UniqueName_AsRequested(base, used) == base

\* the loops "i = 1; while test in all: i = i+1" of
\* generate_unique_organization_names
UniqueName(base, used) ==
    IF base \notin used THEN base
    ELSE LET i == CHOOSE k \in 1..(Cardinality(used) + 1) :
                      /\ (base \o ToString(k)) \notin used
                      /\ \A j \in 1..(k - 1) : (base \o ToString(j)) \in used
         IN base \o ToString(i)

generate_unique_organization_names(og, code, shortname, longname, parent) ==
    LET all_children == OrgChildren(og, parent) IN
    [code |-> UniqueName(code, {og[o].code : o \in all_children}),
     shortname |-> UniqueName(shortname, {og[o].shortname : o \in all_children}),
     longname |-> UniqueName(longname, {og[o].longname : o \in all_children})]

\* the first row of a queryset of Organizations: Meta.ordering puts the
\* highest organization_level first; rows the ordering leaves tied are taken
\* by primary key
FirstOrg(w, S) ==
    CHOOSE o \in S : \A q \in S :
        \/ w.lv[w.og[q].organization_level].level < w.lv[w.og[o].organization_level].level
        \/ /\ w.lv[w.og[q].organization_level].level = w.lv[w.og[o].organization_level].level
           /\ o <= q

get_or_create_unknown_root(w, dryrun) ==
    IF w.cache # None THEN Returns(w, w.cache)
    ELSE LET qset == {o \in DOMAIN w.og :
                         /\ w.og[o].code = "Unknown"
                         /\ w.lv[w.og[o].organization_level].parent = None}
         IN IF qset # {}
            THEN Returns([w EXCEPT !.cache = FirstOrg(w, qset)], FirstOrg(w, qset))
            ELSE IF dryrun THEN Returns(w, None)
            ELSE LET orglevel == root_organization_level(w.lv) IN
                 IF orglevel = None THEN Raises(w, "DoesNotExist")
                 ELSE LET unique_names == generate_unique_organization_names(
                                  w.og, "Unknown", "Unknown",
                                  "Container for Unknown organizations", None)
                          s == OrgSave(w, None, Organization(None, orglevel,
                                  unique_names.code, unique_names.shortname,
                                  unique_names.longname))
                      IN IF s.exc # "" THEN s
                         ELSE Returns([s.w EXCEPT !.cache = s.ret], s.ret)

RECURSIVE ancestors(_, _)
\* ancestors with the parent put first
ancestors_ParentFirst(og, o) ==
    IF og[o].parent # None
    THEN <<og[o].parent>> \o ancestors(og, og[o].parent)
    ELSE <<>>

\* Organization.ancestors of the stored row o: [grandparent, parent]
ancestors(og, o) ==
    IF og[o].parent # None
    THEN Append(ancestors(og, og[o].parent), og[o].parent)
    ELSE <<>>

\* Organization.fullcode of the stored row o: {parent fullcode}-{code}
RECURSIVE fullcode(_, _)
fullcode(og, o) ==
    IF og[o].parent # None
    THEN fullcode(og, og[o].parent) \o "-" \o og[o].code
    ELSE og[o].code

\* the string that fullcode.split('-') splits into codes (codes hold no hyphen:
\* the field's validator refuses one)
RECURSIVE JoinCodes(_)
JoinCodes(codes) ==
    IF Len(codes) = 1 THEN codes[1]
    ELSE JoinCodes(SubSeq(codes, 1, Len(codes) - 1)) \o "-" \o codes[Len(codes)]

\* the rows a queryset ordered by Meta.ordering may hand out first: those of
\* the highest organization_level (the rows looked at all have one code, and
\* the ordering says nothing more)
FirstOrgs(w, S) ==
    {o \in S : \A q \in S :
        w.lv[w.og[q].organization_level].level <= w.lv[w.og[o].organization_level].level}

\* Organization.get_organization_by_fullcode(fullcode), fullcode being
\* JoinCodes(codes); first is the row the queryset hands out first
get_organization_by_fullcode(w, codes, first) ==
    LET lastcode == codes[Len(codes)]
        orgsq == {o \in DOMAIN w.og : w.og[o].code = lastcode}
    IN IF Len(codes) > 1
       THEN LET hits == {o \in orgsq : fullcode(w.og, o) = JoinCodes(codes)} IN
            IF hits # {} THEN Returns(w, FirstOrg(w, hits)) ELSE Returns(w, None)
       ELSE IF orgsq # {} THEN Returns(w, first) ELSE Returns(w, None)

\* the Organizations of a list, as a set
SetOf(list) == {list[i] : i \in 1..Len(list)}

\* list(toadd): the members of a set in the order the set hands them out
RECURSIVE ListOf(_)
ListOf(S) ==
    IF S = {} THEN <<>>
    ELSE LET x == CHOOSE y \in S : TRUE IN <<x>> \o ListOf(S \ {x})

\* a variant that adds the immediate parents only
add_parents_to_organization_list_ParentOnly(og, organizations) ==
    LET parents == {og[organizations[i]].parent : i \in 1..Len(organizations)} \ {None}
    IN organizations \o ListOf(parents \ SetOf(organizations))

\* Organization.add_parents_to_organization_list(organizations)
add_parents_to_organization_list(og, organizations) ==
    LET tmporgs == SetOf(organizations) \cup
                   UNION {SetOf(ancestors(og, organizations[i])) : i \in 1..Len(organizations)}
        toadd == tmporgs \ SetOf(organizations)
    IN organizations \o ListOf(toadd)

\* a variant whose delete also removes under dryrun
UpdateOrganizations_DryrunRemoves(og, old, organizations, addParents, delete, dryrun) ==
    LET orgs2add == SetOf(IF addParents
                          THEN add_parents_to_organization_list(og, organizations)
                          ELSE organizations)
        added == IF dryrun THEN old ELSE old \cup orgs2add
    IN [stored |-> IF delete THEN added \cap orgs2add ELSE added,
        ret |-> [added |-> orgs2add \ old, removed |-> old \ orgs2add]]

\* the body shared by update_user_organizations and
\* update_project_organizations: old is user/project.organizations.all();
\* the new association set and the dictionary returned. 'removed' is computed
\* whether delete is set or not
UpdateOrganizations(og, old, organizations, addParents, delete, dryrun) ==
    LET orgs2add == SetOf(IF addParents
                          THEN add_parents_to_organization_list(og, organizations)
                          ELSE organizations)
        neworgs == orgs2add \ old
        added == IF dryrun THEN old ELSE old \cup neworgs
        orgs2del == old \ orgs2add
    IN [stored |-> IF delete /\ ~dryrun THEN added \ orgs2del ELSE added,
        ret |-> [added |-> neworgs, removed |-> orgs2del]]

\* Organization.update_user_organizations(user, organizations, addParents,
\* delete, dryrun) for the stored UserProfile
update_user_organizations(w, organizations, addParents, delete, dryrun) ==
    LET u == UpdateOrganizations(w.og, w.uo, organizations, addParents, delete, dryrun)
    IN Returns([w EXCEPT !.uo = u.stored], u.ret)

\* Organization.update_user_organizations(user, organizations, addParents,
\* delete, dryrun) for the second stored UserProfile
update_user2_organizations(w, organizations, addParents, delete, dryrun) ==
    LET u == UpdateOrganizations(w.og, w.uo2, organizations, addParents, delete, dryrun)
    IN Returns([w EXCEPT !.uo2 = u.stored], u.ret)

\* Organization.update_project_organizations(project, organizations,
\* addParents, delete, dryrun) for the stored Project
update_project_organizations(w, organizations, addParents, delete, dryrun) ==
    LET u == UpdateOrganizations(w.og, w.po, organizations, addParents, delete, dryrun)
    IN Returns([w EXCEPT !.po = u.stored], u.ret)

\* the unsaved placeholder of create_unknown_object_for_dir_string: a child
\* of unknown_root at the level below it, with names no sibling has
UnknownPlaceholder(w, unknown_root, dirstring) ==
    LET orglevel == IF unknown_root # None
                    THEN child_organization_level(w.lv, w.og[unknown_root].organization_level)
                    ELSE None
        unique_names == generate_unique_organization_names(w.og,
                            "Unknown_placeholder", "Unknown: " \o dirstring,
                            "Unknown: " \o dirstring, unknown_root)
    IN Organization(unknown_root, orglevel, unique_names.code,
                    unique_names.shortname, unique_names.longname)

\* Directory2Organization.objects.create(organization, directory_string)
\* after the second save s3 of the placeholder tmpid: no full_clean runs, a
\* second row for a directory_string is refused by the database
MapDirString(s3, tmpid, dirstring) ==
    IF s3.exc # "" THEN s3
    ELSE IF dirstring \in DOMAIN s3.w.d2o THEN Raises(s3.w, "IntegrityError")
    ELSE Returns([s3.w EXCEPT !.d2o = (dirstring :> tmpid) @@ s3.w.d2o], tmpid)

\* after the first save s2: the placeholder is renamed after its primary key
\* and saved again
RenamePlaceholder(s2, placeholder, dirstring) ==
    IF s2.exc # "" THEN s2
    ELSE MapDirString(OrgSave(s2.w, s2.ret,
                              [placeholder EXCEPT !.code = "Unknown_" \o ToString(s2.ret)]),
                      s2.ret, dirstring)

\* the saves of create_unknown_object_for_dir_string; under dryrun nothing is
\* saved and the unsaved placeholder, named after a hash, is returned
SavePlaceholder(w, placeholder, dirstring, dryrun) ==
    IF dryrun
    THEN Returns(w, [placeholder EXCEPT !.code = "Unknown_hash(" \o dirstring \o ")"])
    ELSE RenamePlaceholder(OrgSave(w, None, placeholder), placeholder, dirstring)

\* create_unknown_object_for_dir_string once get_or_create_unknown_root has
\* ended as s1
PlaceholderUnder(s1, dirstring, dryrun) ==
    IF s1.exc # "" THEN s1
    ELSE SavePlaceholder(s1.w, UnknownPlaceholder(s1.w, s1.ret, dirstring), dirstring, dryrun)

\* Organization.create_unknown_object_for_dir_string(dirstring, dryrun): the
\* placeholder is saved under the top-level Unknown Organization, renamed
\* after its primary key and saved again, then mapped from dirstring
create_unknown_object_for_dir_string(w, dirstring, dryrun) ==
    PlaceholderUnder(get_or_create_unknown_root(w, dryrun), dirstring, dryrun)

\* the stored UserProfiles, numbered in the order of user.last_name
Users == {1, 2}

\* UserProfile.objects.filter(organizations=org)
UsersOf(w, org) == {u \in Users : org \in (IF u = 1 THEN w.uo ELSE w.uo2)}

\* sorted(users, key=lambda x: x.user.last_name)
SortedUsers(users) ==
    IF users = Users THEN <<1, 2>> ELSE ListOf(users)

RECURSIVE ListUsersFrom(_, _, _, _, _, _)
\* the loop of list_users_by_organization's handle from orgcodes[i] on;
\* firsts[i] is the row the queryset of get_organization_by_fullcode hands
\* out first for orgcodes[i]
ListUsersFrom(w, orgcodes, firsts, i, users, andorgs) ==
    IF i > Len(orgcodes) THEN Returns(w, SortedUsers(users))
    ELSE LET org == get_organization_by_fullcode(w, orgcodes[i], firsts[i]).ret IN
         IF org = None THEN Raises(w, "CommandError")
         ELSE ListUsersFrom(w, orgcodes, firsts, i + 1,
                            IF andorgs THEN users \cap UsersOf(w, org)
                            ELSE users \cup UsersOf(w, org),
                            andorgs)

\* list_users_by_organization: Command.handle with --organization orgcodes
\* and --and andorgs; what is returned here is what it writes out
list_users_by_organization(w, orgcodes, firsts, andorgs) ==
    ListUsersFrom(w, orgcodes, firsts, 1, {}, andorgs)

\* abs(hash(dirstring)): the id given to a placeholder that was not saved, a
\* number no stored Organization has
DirHash == ("chem" :> 1001) @@ ("phys" :> 1002)

RECURSIVE ConvertFrom(_, _, _, _, _, _)
\* a variant that leaves a saved placeholder out of the list
ConvertPlaceholder_Dropped(s, strings, i, tmporgs, createUndefined, dryrun) ==
    IF s.exc # "" THEN s
    ELSE ConvertFrom(s.w, strings, i + 1,
                     tmporgs \cup (IF dryrun THEN {DirHash[strings[i]]} ELSE {}),
                     createUndefined, dryrun)

\* Organization.convert_strings_to_orgs once create_unknown_object_for_dir_string
\* has ended as s for strings[i]: the placeholder joins tmporgs (by its
\* primary key when saved, by the hash it was given when not)
ConvertPlaceholder(s, strings, i, tmporgs, createUndefined, dryrun) ==
    IF s.exc # "" THEN s
    ELSE ConvertFrom(s.w, strings, i + 1,
                     tmporgs \cup {IF dryrun THEN DirHash[strings[i]] ELSE s.ret},
                     createUndefined, dryrun)

\* the loop of Organization.convert_strings_to_orgs from strings[i] on
ConvertFrom(w, strings, i, tmporgs, createUndefined, dryrun) ==
    IF i > Len(strings) THEN Returns(w, ListOf(tmporgs))
    ELSE IF strings[i] \in DOMAIN w.d2o
    THEN ConvertFrom(w, strings, i + 1, tmporgs \cup {w.d2o[strings[i]]},
                     createUndefined, dryrun)
    ELSE IF ~createUndefined
    THEN ConvertFrom(w, strings, i + 1, tmporgs, createUndefined, dryrun)
    ELSE ConvertPlaceholder(create_unknown_object_for_dir_string(w, strings[i], dryrun),
                            strings, i, tmporgs, createUndefined, dryrun)

\* Organization.convert_strings_to_orgs(strings, createUndefined, dryrun)
convert_strings_to_orgs(w, strings, createUndefined, dryrun) ==
    ConvertFrom(w, strings, 1, {}, createUndefined, dryrun)

\* ---------------------------------------- add / delete_organization_level

\* a loop that moves the first Organization only
MoveUnderRoot_FirstOnly(w, snap, order, rootorg) ==
    IF order = <<>> THEN Ok(w)
    ELSE OrgSave(w, Head(order), [snap[Head(order)] EXCEPT !.parent = rootorg])

\* "for org in orgs: org.parent = rootorg; org.save()" over the rows read
\* into orgs (snap), visited in the order given
RECURSIVE MoveUnderRoot(_, _, _, _)
MoveUnderRoot(w, snap, order, rootorg) ==
    IF order = <<>> THEN Ok(w)
    ELSE LET org == Head(order)
             s == OrgSave(w, org, [snap[org] EXCEPT !.parent = rootorg])
         IN IF s.exc # "" THEN s
            ELSE MoveUnderRoot(s.w, snap, Tail(order), rootorg)

\* the loop over the Organizations at the child level when a level is
\* inserted: a placeholder is built WITHOUT an organization_level and saved
RECURSIVE InsertPlaceholders(_, _, _)
InsertPlaceholders(w, snap, order) ==
    IF order = <<>> THEN Ok(w)
    ELSE LET org == snap[Head(order)]
             uniq_names == generate_unique_organization_names(w.og,
                               "placeholder" \o org.code,
                               "placeholder" \o org.shortname,
                               "placeholder" \o org.longname, org.parent)
             s1 == OrgSave(w, None, Organization(org.parent, None,
                               uniq_names.code, uniq_names.shortname,
                               uniq_names.longname))
         IN IF s1.exc # "" THEN s1
            ELSE LET s2 == OrgSave(s1.w, Head(order), [org EXCEPT !.parent = s1.ret])
                 IN IF s2.exc # "" THEN s2
                    ELSE InsertPlaceholders(s2.w, snap, Tail(order))

\* the rows of order that are at OrganizationLevel p, in that order
OrgsOfLevel(og, order, p) ==
    SelectSeq(order, LAMBDA o : og[o].organization_level = p)

\* add_organization_level, parent is None and a root exists
AddRootLevel(w, name, level, root, order) ==
    IF ~(level > w.lv[root].level) THEN Raises(w, "ValidationError")
    ELSE
    LET s1 == LevelSave([w EXCEPT !.dis = TRUE], None,
                        OrganizationLevel(name, level, None)) IN
    IF s1.exc # "" THEN s1 ELSE
    LET newroot == s1.ret
        s2 == LevelSave(s1.w, root, [s1.w.lv[root] EXCEPT !.parent = newroot]) IN
    IF s2.exc # "" THEN s2 ELSE
    LET w3 == [s2.w EXCEPT !.dis = FALSE, !.cache = None]
        orgsq == OrgsOfLevel(w3.og, order, root) IN
    IF orgsq = <<>> THEN Returns(w3, newroot) ELSE
    LET s4 == get_or_create_unknown_root(w3, FALSE) IN
    IF s4.exc # "" THEN s4 ELSE
    LET s5 == MoveUnderRoot(s4.w, w3.og, orgsq, s4.ret) IN
    IF s5.exc # "" THEN s5 ELSE Returns(s5.w, newroot)

\* an insertion that never gives the new level its parent
AddMiddleLevel_NoParent(w, name, level, parent, child, order) ==
    IF ~(level > w.lv[child].level) THEN Raises(w, "ValidationError")
    ELSE
    LET s1 == LevelSave([w EXCEPT !.dis = TRUE], None,
                        OrganizationLevel(name, level, None)) IN
    IF s1.exc # "" THEN s1 ELSE
    LET newolev == s1.ret
        s2 == LevelSave(s1.w, child, [s1.w.lv[child] EXCEPT !.parent = newolev]) IN
    IF s2.exc # "" THEN s2 ELSE
    LET w4 == [s2.w EXCEPT !.dis = FALSE]
        s5 == InsertPlaceholders(w4, w4.og, OrgsOfLevel(w4.og, order, child)) IN
    IF s5.exc # "" THEN s5 ELSE Returns(s5.w, newolev)

\* add_organization_level, a parent with a child level: insert in between
AddMiddleLevel(w, name, level, parent, child, order) ==
    IF ~(level > w.lv[child].level) THEN Raises(w, "ValidationError")
    ELSE
    LET s1 == LevelSave([w EXCEPT !.dis = TRUE], None,
                        OrganizationLevel(name, level, None)) IN
    IF s1.exc # "" THEN s1 ELSE
    LET newolev == s1.ret
        s2 == LevelSave(s1.w, child, [s1.w.lv[child] EXCEPT !.parent = newolev]) IN
    IF s2.exc # "" THEN s2 ELSE
    LET s3 == LevelSave(s2.w, newolev, [s2.w.lv[newolev] EXCEPT !.parent = parent]) IN
    IF s3.exc # "" THEN s3 ELSE
    LET w4 == [s3.w EXCEPT !.dis = FALSE]
        s5 == InsertPlaceholders(w4, w4.og, OrgsOfLevel(w4.og, order, child)) IN
    IF s5.exc # "" THEN s5 ELSE Returns(s5.w, newolev)

\* an add_organization_level that does not compare level with the parent's
add_organization_level_NoParentCheck(w, name, level, parent, export_to_xdmod, order) ==
    IF parent = None
    THEN LET root == root_organization_level(w.lv) IN
         IF root # None
         THEN AddRootLevel(w, name, level, root, order)
         ELSE LevelSave(w, None, OrganizationLevel(name, level, None))
    ELSE LET child == ChildLevels(w.lv, parent) IN
         IF child # {}
         THEN AddMiddleLevel(w, name, level, parent, FirstLevel(w.lv, child), order)
         ELSE LevelSave(w, None, OrganizationLevel(name, level, parent))

\* OrganizationLevel.add_organization_level(name, level, parent, export_to_xdmod);
\* order is the order in which the database hands out the Organizations.
\* export_to_xdmod is never read: every row is built with the field's default
add_organization_level(w, name, level, parent, export_to_xdmod, order) ==
    IF parent = None
    THEN LET root == root_organization_level(w.lv) IN
         IF root # None
         THEN AddRootLevel(w, name, level, root, order)
         ELSE LevelSave(w, None, OrganizationLevel(name, level, None))
    ELSE IF ~(w.lv[parent].level > level) THEN Raises(w, "ValidationError")
    ELSE LET child == ChildLevels(w.lv, parent) IN
         IF child # {}
         THEN AddMiddleLevel(w, name, level, parent, FirstLevel(w.lv, child), order)
         ELSE LevelSave(w, None, OrganizationLevel(name, level, parent))

\* a delete_organization_level that does not look for Organizations first
delete_organization_level_Unchecked(w, self) ==
    LET child == ChildLevels(w.lv, self) IN
    IF child = {} THEN LevelDelete(w, self)
    ELSE IF w.lv[self].parent # None
    THEN LET s == LevelDelete([w EXCEPT !.dis = TRUE], self) IN
         IF s.exc # "" THEN s ELSE Ok([s.w EXCEPT !.dis = FALSE])
    ELSE LET c == FirstLevel(w.lv, child)
             s1 == LevelSave([w EXCEPT !.dis = TRUE], c, [w.lv[c] EXCEPT !.parent = None]) IN
         IF s1.exc # "" THEN s1 ELSE
         LET s2 == LevelDelete(s1.w, self) IN
         IF s2.exc # "" THEN s2 ELSE Ok([s2.w EXCEPT !.dis = FALSE])

\* OrganizationLevel.delete_organization_level of the stored row self
delete_organization_level(w, self) ==
    IF OrgsAtLevel(w.og, self) # {} THEN Raises(w, "ValidationError")
    ELSE LET child == ChildLevels(w.lv, self) IN
    IF w.lv[self].parent # None
    THEN IF child # {}
         THEN \* child.parent = self.parent is never saved
              LET s == LevelDelete([w EXCEPT !.dis = TRUE], self) IN
              IF s.exc # "" THEN s ELSE Ok([s.w EXCEPT !.dis = FALSE])
         ELSE LevelDelete(w, self)
    ELSE IF child # {}
         THEN LET c == FirstLevel(w.lv, child)
                  s1 == LevelSave([w EXCEPT !.dis = TRUE], c,
                                  [w.lv[c] EXCEPT !.parent = None]) IN
              IF s1.exc # "" THEN s1 ELSE
              LET s2 == LevelDelete(s1.w, self) IN
              IF s2.exc # "" THEN s2 ELSE Ok([s2.w EXCEPT !.dis = FALSE])
         ELSE LevelDelete(w, self)

\* ----------------------------------------------------------------- actions

\* what the last call was and how it ended: op, the primary key it was
\* called on or with (arg), the exception ("" if none) and the value returned
Call(op, arg, r) == [op |-> op, arg |-> arg, exc |-> r.exc, ret |-> r.ret]

\* the world a step ends in becomes the state
Commit(r) ==
    /\ r.w.nlp <= MaxLevels + 1
    /\ r.w.nop <= MaxOrgs + 1
    /\ orgLevels' = r.w.lv
    /\ orgs' = r.w.og
    /\ olDisable' = r.w.dis
    /\ orgDisable' = r.w.odis
    /\ cachedUnknown' = r.w.cache
    /\ nextLevelPk' = r.w.nlp
    /\ nextOrgPk' = r.w.nop
    /\ dir2org' = r.w.d2o
    /\ userOrgs' = r.w.uo
    /\ user2Orgs' = r.w.uo2
    /\ projOrgs' = r.w.po

\* OrganizationLevel.disable_validation_checks(new)
SetLevelDisable(new) ==
    /\ Commit(Ok([World EXCEPT !.dis = new]))
    /\ last' = Call("disable_validation_checks", None, Ok(World))

\* OrganizationLevel.objects.create(name=..., level=..., parent=...)
CreateLevel(name, level, parent) ==
    LET r == LevelSave(World, None, OrganizationLevel(name, level, parent)) IN
    /\ Commit(r)
    /\ last' = Call("create", parent, r)

\* olev.update_orglevel_from_dict({'level': level}) of the stored row pk
UpdateLevel(pk, level) ==
    LET r == update_orglevel_from_dict(World, pk, level) IN
    /\ Commit(r)
    /\ last' = Call("update_orglevel_from_dict", pk, r)

\* OrganizationLevel.delete() of the stored row pk
DeleteLevel(pk) ==
    LET r == LevelDelete(World, pk) IN
    /\ Commit(r)
    /\ last' = Call("delete", pk, r)

\* OrganizationLevel.validate_orglevel_hierarchy()
Validate ==
    LET r == validate_orglevel_hierarchy(World) IN
    /\ Commit(r)
    /\ last' = Call("validate_orglevel_hierarchy", None, r)

\* OrganizationLevel.generate_orglevel_hierarchy_list(validate)
GenerateHierarchyList(validate) ==
    LET h == generate_orglevel_hierarchy_list(orgLevels, validate)
        r == IF h.raised THEN Raises(World, "ValidationError")
             ELSE Returns(World, h.list)
    IN /\ Commit(r)
       /\ last' = Call("generate_orglevel_hierarchy_list", validate, r)

\* OrganizationLevel.add_organization_level(name, level, parent, export_to_xdmod)
AddOrganizationLevel(name, level, parent, export_to_xdmod, order) ==
    LET r == add_organization_level(World, name, level, parent, export_to_xdmod, order) IN
    /\ Commit(r)
    /\ last' = Call("add_organization_level", parent, r)

\* self.delete_organization_level() of the stored row self
DeleteOrganizationLevel(self) ==
    LET r == delete_organization_level(World, self) IN
    /\ Commit(r)
    /\ last' = Call("delete_organization_level", self, r)

\* Organization.objects.create(parent=..., organization_level=..., code=...,
\* shortname=..., longname=...); callers here name all three alike
CreateOrg(parent, level, code) ==
    LET r == OrgSave(World, None, Organization(parent, level, code, code, code)) IN
    /\ Commit(r)
    /\ last' = Call("Organization.create", parent, r)

\* org.parent = parent; org.organization_level = level; org.save() on the
\* stored Organization pk
UpdateOrg(pk, parent, level) ==
    LET r == OrgSave(World, pk, [orgs[pk] EXCEPT !.parent = parent,
                                                 !.organization_level = level]) IN
    /\ Commit(r)
    /\ last' = Call("Organization.save", pk, r)

\* org.delete() on the stored Organization pk
DeleteOrg(pk) ==
    LET r == OrgDelete(World, pk) IN
    /\ Commit(r)
    /\ last' = Call("Organization.delete", pk, r)

\* Organization.get_or_create_unknown_root(dryrun)
GetOrCreateUnknownRoot(dryrun) ==
    LET r == get_or_create_unknown_root(World, dryrun) IN
    /\ Commit(r)
    /\ last' = Call("get_or_create_unknown_root", dryrun, r)

\* Organization.create_unknown_object_for_dir_string(dirstring, dryrun)
CreateUnknownObjectForDirString(dirstring, dryrun) ==
    LET r == create_unknown_object_for_dir_string(World, dirstring, dryrun) IN
    /\ Commit(r)
    /\ last' = Call("create_unknown_object_for_dir_string", dirstring, r)

\* Organization.convert_strings_to_orgs(strings, createUndefined, dryrun)
ConvertStringsToOrgs(strings, createUndefined, dryrun) ==
    LET r == convert_strings_to_orgs(World, strings, createUndefined, dryrun) IN
    /\ Commit(r)
    /\ last' = Call("convert_strings_to_orgs",
                    [strings |-> strings, createUndefined |-> createUndefined,
                     dryrun |-> dryrun], r)

\* Organization.generate_unique_organization_names(code, shortname, longname,
\* parent); callers here ask for the three alike
GenerateUniqueNames(code, parent) ==
    LET r == Returns(World, generate_unique_organization_names(orgs, code, code, code, parent)) IN
    /\ Commit(r)
    /\ last' = Call("generate_unique_organization_names",
                    [code |-> code, parent |-> parent], r)

\* org.fullcode() of the stored row o
Fullcode(o) ==
    LET r == Returns(World, fullcode(orgs, o)) IN
    /\ Commit(r)
    /\ last' = Call("fullcode", o, r)

\* org.ancestors() of the stored row o
Ancestors(o) ==
    LET r == Returns(World, ancestors(orgs, o)) IN
    /\ Commit(r)
    /\ last' = Call("ancestors", o, r)

\* Organization.get_organization_by_fullcode(JoinCodes(codes))
GetOrganizationByFullcode(codes) ==
    LET orgsq == {o \in DOMAIN orgs : orgs[o].code = codes[Len(codes)]} IN
    \E first \in FirstOrgs(World, orgsq) \cup {None} :
       /\ (first = None) = (orgsq = {})
       /\ LET r == get_organization_by_fullcode(World, codes, first) IN
          /\ Commit(r)
          /\ last' = Call("get_organization_by_fullcode", JoinCodes(codes), r)

\* what is recorded of an update_*_organizations call: its switches
Switches(addParents, delete, dryrun) ==
    [addParents |-> addParents, delete |-> delete, dryrun |-> dryrun]

\* Organization.update_user_organizations(user, organizations, ...)
UpdateUserOrganizations(organizations, addParents, delete, dryrun) ==
    LET r == update_user_organizations(World, organizations, addParents, delete, dryrun) IN
    /\ Commit(r)
    /\ last' = Call("update_user_organizations", Switches(addParents, delete, dryrun), r)

\* Organization.update_user_organizations(user, organizations, ...) for the
\* second UserProfile
UpdateUser2Organizations(organizations, addParents, delete, dryrun) ==
    LET r == update_user2_organizations(World, organizations, addParents, delete, dryrun) IN
    /\ Commit(r)
    /\ last' = Call("update_user_organizations(user2)", Switches(addParents, delete, dryrun), r)

\* the rows the querysets of get_organization_by_fullcode may hand out first,
\* one for each fullcode of orgcodes (None where no row has the last code)
FirstsFor(orgcodes) ==
    {f \in [1..Len(orgcodes) -> DOMAIN orgs \cup {None}] :
        \A i \in 1..Len(orgcodes) :
            LET orgsq == {o \in DOMAIN orgs : orgs[o].code = orgcodes[i][Len(orgcodes[i])]}
            IN IF orgsq = {} THEN f[i] = None ELSE f[i] \in FirstOrgs(World, orgsq)}

\* manage.py list_users_by_organization -o ... [--and]
ListUsersByOrganization(orgcodes, andorgs) ==
    \E firsts \in FirstsFor(orgcodes) :
       LET r == list_users_by_organization(World, orgcodes, firsts, andorgs) IN
       /\ Commit(r)
       /\ last' = Call("list_users_by_organization",
                       [organization |-> [i \in 1..Len(orgcodes) |-> JoinCodes(orgcodes[i])],
                        and |-> andorgs], r)

\* Organization.update_project_organizations(project, organizations, ...)
UpdateProjectOrganizations(organizations, addParents, delete, dryrun) ==
    LET r == update_project_organizations(World, organizations, addParents, delete, dryrun) IN
    /\ Commit(r)
    /\ last' = Call("update_project_organizations", Switches(addParents, delete, dryrun), r)

\* the names a caller may give a new OrganizationLevel
LevelNames == {LevelName(nextLevelPk)} \cup {orgLevels[p].name : p \in DOMAIN orgLevels}

\* the sequences that list every element of S once
Orderings(S) ==
    {f \in [1..Cardinality(S) -> S] : \A i, j \in 1..Cardinality(S) : f[i] = f[j] => i = j}

\* codes given to Organizations by callers
OrgCodes == {"Unknown", "UMD"}

Init ==
    /\ orgLevels = <<>>
    /\ orgs = <<>>
    /\ olDisable = FALSE
    /\ orgDisable = FALSE
    /\ cachedUnknown = None
    /\ nextLevelPk = 1
    /\ nextOrgPk = 1
    /\ dir2org = <<>>
    /\ userOrgs = {}
    /\ user2Orgs = {}
    /\ projOrgs = {}
    /\ last = [op |-> "init", arg |-> None, exc |-> "", ret |-> None]

\* the Organizations whose rows add_organization_level(.., parent, ..) loops
\* over: those at the root level, or at the level of the parent's child
VisitedOrgs(parent) ==
    LET target == IF parent = None THEN root_organization_level(orgLevels)
                  ELSE child_organization_level(orgLevels, parent)
    IN OrgsAtLevel(orgs, target)

\* the calls on a deployment with Organizations: the hierarchy is changed
\* through add_organization_level and delete_organization_level
Next ==
    \/ \E n \in LevelNames, l \in LevelValues, p \in DOMAIN orgLevels \cup {None} :
          \E x \in BOOLEAN, order \in Orderings(VisitedOrgs(p)) :
             AddOrganizationLevel(n, l, p, x, order)
    \/ \E p \in DOMAIN orgLevels : DeleteOrganizationLevel(p)
    \/ \E p \in DOMAIN orgLevels : DeleteLevel(p)
    \/ \E p \in DOMAIN orgs \cup {None}, l \in DOMAIN orgLevels, c \in OrgCodes :
          CreateOrg(p, l, c)

Spec == Init /\ [][Next]_vars

\* strings a directory gives for a user
DirStrings == {"chem", "phys"}

\* the calls that store and name Organizations, on a hierarchy that grows by
\* add_organization_level with new names
NextOrgs ==
    \/ \E l \in LevelValues, p \in DOMAIN orgLevels \cup {None} :
          \E order \in Orderings(VisitedOrgs(p)) :
             AddOrganizationLevel(LevelName(nextLevelPk), l, p, TRUE, order)
    \/ \E p \in DOMAIN orgs \cup {None}, l \in DOMAIN orgLevels, c \in OrgCodes :
          CreateOrg(p, l, c)
    \/ \E b \in BOOLEAN : GetOrCreateUnknownRoot(b)
    \/ \E d \in DirStrings, b \in BOOLEAN : CreateUnknownObjectForDirString(d, b)
    \/ \E c \in OrgCodes, p \in DOMAIN orgs \cup {None} : GenerateUniqueNames(c, p)

SpecOrgs == Init /\ [][NextOrgs]_vars

\* longest fullcode asked for, in codes
MaxCodes == 3

\* the fullcodes asked for, as their codes
CodeSeqs == UNION {[1..n -> OrgCodes] : n \in 1..MaxCodes}

\* the calls that read the Organization tree, on a tree that grows by
\* Organization creates and add_organization_level with new names
NextTree ==
    \/ \E l \in LevelValues, p \in DOMAIN orgLevels \cup {None} :
          \E order \in Orderings(VisitedOrgs(p)) :
             AddOrganizationLevel(LevelName(nextLevelPk), l, p, TRUE, order)
    \/ \E p \in DOMAIN orgs \cup {None}, l \in DOMAIN orgLevels, c \in OrgCodes :
          CreateOrg(p, l, c)
    \/ \E o \in DOMAIN orgs : Fullcode(o)
    \/ \E o \in DOMAIN orgs : Ancestors(o)
    \/ \E codes \in CodeSeqs : GetOrganizationByFullcode(codes)

SpecTree == Init /\ [][NextTree]_vars

\* longest list of Organizations given to update_*_organizations
MaxOrgList == 2

\* the lists of Organizations given: stored Organizations, none twice
OrgLists ==
    {ListOf(S) : S \in {T \in SUBSET DOMAIN orgs : Cardinality(T) <= MaxOrgList}}

\* where a tier is added below the hierarchy: under the childless level, or
\* as the first level
LeafOrNone ==
    IF DOMAIN orgLevels = {} THEN {None}
    ELSE {q \in DOMAIN orgLevels : ChildLevels(orgLevels, q) = {}}

\* the calls that associate Organizations with a user and with a project, on
\* a tree that grows downwards: each new level goes below the last one
NextAssoc ==
    \/ \E p \in LeafOrNone :
          AddOrganizationLevel(LevelName(nextLevelPk), MaxLevelValue + 1 - nextLevelPk,
                               p, TRUE, <<>>)
    \/ \E p \in DOMAIN orgs \cup {None}, l \in DOMAIN orgLevels :
          CreateOrg(p, l, "UMD")
    \/ \E list \in OrgLists, a, d, dry \in BOOLEAN : UpdateUserOrganizations(list, a, d, dry)
    \/ \E list \in OrgLists, a, d, dry \in BOOLEAN : UpdateProjectOrganizations(list, a, d, dry)

SpecAssoc == Init /\ [][NextAssoc]_vars

\* longest list of directory strings given to convert_strings_to_orgs
MaxStrings == 2

\* the lists of directory strings a directory hands over
StringLists == UNION {[1..n -> DirStrings] : n \in 0..MaxStrings}

\* the calls that turn directory strings into Organizations, on a hierarchy
\* changed through add_organization_level
NextDir ==
    \/ \E l \in LevelValues, p \in DOMAIN orgLevels \cup {None} :
          \E order \in Orderings(VisitedOrgs(p)) :
             AddOrganizationLevel(LevelName(nextLevelPk), l, p, TRUE, order)
    \/ \E p \in DOMAIN orgs \cup {None}, l \in DOMAIN orgLevels :
          CreateOrg(p, l, "UMD")
    \/ \E d \in DirStrings, b \in BOOLEAN : CreateUnknownObjectForDirString(d, b)
    \/ \E list \in StringLists, c, b \in BOOLEAN : ConvertStringsToOrgs(list, c, b)

SpecDir == Init /\ [][NextDir]_vars

\* most --organization options given to list_users_by_organization
MaxOptions == 2

\* the fullcodes given with --organization, as their codes
OrgOptions ==
    UNION {[1..n -> UNION {[1..k -> {"UMD"}] : k \in 1..MaxCodes}] : n \in 0..MaxOptions}

\* the calls that list users by Organization, on a tree that grows downwards
\* and two users whose Organizations are set by update_user_organizations
NextList ==
    \/ \E p \in LeafOrNone :
          AddOrganizationLevel(LevelName(nextLevelPk), MaxLevelValue + 1 - nextLevelPk,
                               p, TRUE, <<>>)
    \/ \E p \in DOMAIN orgs \cup {None}, l \in DOMAIN orgLevels :
          CreateOrg(p, l, "UMD")
    \/ \E list \in OrgLists, d \in BOOLEAN : UpdateUserOrganizations(list, FALSE, d, FALSE)
    \/ \E list \in OrgLists, d \in BOOLEAN : UpdateUser2Organizations(list, FALSE, d, FALSE)
    \/ \E list \in OrgOptions, a \in BOOLEAN : ListUsersByOrganization(list, a)

SpecList == Init /\ [][NextList]_vars

\* the saves of new and of stored Organizations, validation enabled, on a
\* hierarchy that grows downwards; a stored Organization is given another
\* stored Organization as parent
NextSaves ==
    \/ \E p \in LeafOrNone :
          AddOrganizationLevel(LevelName(nextLevelPk), MaxLevelValue + 1 - nextLevelPk,
                               p, TRUE, <<>>)
    \/ \E p \in DOMAIN orgs \cup {None}, l \in DOMAIN orgLevels, c \in OrgCodes :
          CreateOrg(p, l, c)
    \/ \E o \in DOMAIN orgs, l \in DOMAIN orgLevels :
          \E p \in (DOMAIN orgs \ {o}) \cup {None} : UpdateOrg(o, p, l)

SpecSaves == Init /\ [][NextSaves]_vars

\* the calls that set, use and outdate the cached top-level Unknown
\* Organization
NextCache ==
    \/ \E l \in LevelValues, p \in DOMAIN orgLevels \cup {None} :
          \E order \in Orderings(VisitedOrgs(p)) :
             AddOrganizationLevel(LevelName(nextLevelPk), l, p, TRUE, order)
    \/ \E p \in DOMAIN orgLevels : DeleteOrganizationLevel(p)
    \/ \E p \in DOMAIN orgs \cup {None}, l \in DOMAIN orgLevels :
          CreateOrg(p, l, "UMD")
    \/ \E o \in DOMAIN orgs : DeleteOrg(o)
    \/ \E b \in BOOLEAN : GetOrCreateUnknownRoot(b)

SpecCache == Init /\ [][NextCache]_vars

\* the calls on the OrganizationLevel table alone (no Organization is ever
\* stored), with rows also created, updated and deleted directly and the validation
\* switch set by hand
NextLevels ==
    \/ \E b \in BOOLEAN : SetLevelDisable(b)
    \/ \E n \in LevelNames, l \in LevelValues, p \in DOMAIN orgLevels \cup {None} :
          CreateLevel(n, l, p)
    \/ \E p \in DOMAIN orgLevels, l \in LevelValues : UpdateLevel(p, l)
    \/ \E p \in DOMAIN orgLevels : DeleteLevel(p)
    \/ Validate
    \/ \E v \in BOOLEAN : GenerateHierarchyList(v)
    \/ \E n \in LevelNames, l \in LevelValues, p \in DOMAIN orgLevels \cup {None} :
          \E x \in BOOLEAN : AddOrganizationLevel(n, l, p, x, <<>>)
    \/ \E p \in DOMAIN orgLevels : DeleteOrganizationLevel(p)

SpecLevels == Init /\ [][NextLevels]_vars

\* ================================================================= claims

\* p's ancestor n parent links up (None once the links run out)
RECURSIVE LevelAncestor(_, _, _)
LevelAncestor(lv, p, n) ==
    IF n = 0 \/ p = None THEN p ELSE LevelAncestor(lv, lv[p].parent, n - 1)

\* one chain: one parentless root, one childless leaf, at most one child per
\* level, every level below the root, levels strictly decreasing downwards
SingleChain(lv) ==
    /\ Cardinality(ParentlessLevels(lv)) = 1
    /\ Cardinality({p \in DOMAIN lv : ChildLevels(lv, p) = {}}) = 1
    /\ \A p \in DOMAIN lv : Cardinality(ChildLevels(lv, p)) <= 1
    /\ \A p \in DOMAIN lv : \E n \in 0..Cardinality(DOMAIN lv) :
           LevelAncestor(lv, p, n) \in ParentlessLevels(lv)
    /\ \A p \in DOMAIN lv :
           lv[p].parent # None => lv[lv[p].parent].level > lv[p].level

\* C1: starting from the empty hierarchy, after any sequence of
\* add_organization_level and delete_organization_level calls, returning or
\* raising (and of Organization creations and direct deletes of levels in
\* between), the stored OrganizationLevels are none at all or a single chain:
\* one parentless root, one childless leaf, every level reachable from the
\* root, at most one child per level, levels strictly decreasing downwards.
C1_LevelsFormChain == DOMAIN orgLevels = {} \/ SingleChain(orgLevels)

\* C1 witness: a chain of three levels left behind by an
\* add_organization_level call that raised after inserting its level
C1_Witness ==
    /\ last.op = "add_organization_level"
    /\ last.exc = "RelatedObjectDoesNotExist"
    /\ Cardinality(DOMAIN orgLevels) = 3
    /\ olDisable = FALSE

\* the level correspondence of one stored Organization: parentless exactly
\* at the root level, otherwise its parent sits at the parent of its level
Corresponds(lv, og, o) ==
    /\ og[o].parent = None <=> lv[og[o].organization_level].parent = None
    /\ og[o].parent # None =>
           og[og[o].parent].organization_level = lv[og[o].organization_level].parent

LevelCorrespondence(lv, og) == \A o \in DOMAIN og : Corresponds(lv, og, o)

\* C2 (refuted by the code): an Organization save with validation enabled or
\* an add_organization_level call, made in a state where every stored
\* Organization satisfies the level correspondence, ends in such a state.
C2_CorrespondencePreserved ==
    [][(/\ LevelCorrespondence(orgLevels, orgs)
        /\ orgDisable = FALSE
        /\ last'.op \in {"add_organization_level", "Organization.create"})
       => LevelCorrespondence(orgLevels', orgs')]_vars

\* the name is that of no stored OrganizationLevel
FreshLevelName(n) == \A q \in DOMAIN orgLevels : orgLevels[q].name # n

\* C3 (refuted by the code): add_organization_level with a new name, a parent
\* that has a child level and a level strictly between theirs inserts the new
\* level between them, and for each Organization at the child level creates a
\* placeholder at the inserted level, under that Organization's former
\* parent, and makes the placeholder the Organization's parent.
C3_InsertBetween ==
    [][\A n \in LevelNames, l \in LevelValues, p \in DOMAIN orgLevels :
         \A order \in Orderings(VisitedOrgs(p)) :
           (/\ \E x \in BOOLEAN : AddOrganizationLevel(n, l, p, x, order)
            /\ FreshLevelName(n)
            /\ ChildLevels(orgLevels, p) # {}
            /\ \A c \in ChildLevels(orgLevels, p) : orgLevels[c].level < l
            /\ l < orgLevels[p].level)
           => \E k \in DOMAIN orgLevels' \ DOMAIN orgLevels :
                /\ orgLevels'[k].parent = p
                /\ \A c \in ChildLevels(orgLevels, p) :
                     /\ orgLevels'[c].parent = k
                     /\ \A o \in OrgsAtLevel(orgs, c) :
                          \E ph \in DOMAIN orgs' \ DOMAIN orgs :
                            /\ orgs'[ph].organization_level = k
                            /\ orgs'[ph].parent = orgs[o].parent
                            /\ orgs'[o].parent = ph]_vars

\* C4 (refuted by the code): delete_organization_level on a level that no
\* Organization refers to removes exactly that level; a child of it takes over
\* its parent (None for the root); every other OrganizationLevel is unchanged.
C4_DeleteRepairs ==
    [][\A p \in DOMAIN orgLevels :
         (DeleteOrganizationLevel(p) /\ OrgsAtLevel(orgs, p) = {})
         => /\ DOMAIN orgLevels' = DOMAIN orgLevels \ {p}
            /\ \A q \in DOMAIN orgLevels \ {p} :
                 orgLevels'[q] = IF orgLevels[q].parent = p
                                 THEN [orgLevels[q] EXCEPT !.parent = orgLevels[p].parent]
                                 ELSE orgLevels[q]]_vars

\* the hierarchy list, as the primary keys from the root down
HierarchyList(lv) == generate_orglevel_hierarchy_list(lv, FALSE).list

\* C5: when add_organization_level is called with parent None and a level
\* above the root's and returns, the returned level is the new parentless
\* root, the hierarchy list is the new level followed by the previous list,
\* only the previous root's row changed (its parent); and if Organizations were
\* at the previous root level, exactly one Organization is at the new root
\* level and its children are exactly those Organizations.
C5_NewRootTier ==
    [][(last'.op = "add_organization_level" /\ last'.arg = None /\ last'.exc = "") =>
       \A n \in LevelNames, l \in LevelValues :
         \A order \in Orderings(VisitedOrgs(None)) :
           LET root == root_organization_level(orgLevels)
               k == last'.ret
           IN (/\ \E x \in BOOLEAN : AddOrganizationLevel(n, l, None, x, order)
               /\ root # None
               /\ l > orgLevels[root].level
               /\ last'.exc = "")
              => /\ k \in DOMAIN orgLevels' \ DOMAIN orgLevels
                 /\ orgLevels'[k].parent = None
                 /\ HierarchyList(orgLevels') = <<k>> \o HierarchyList(orgLevels)
                 /\ orgLevels'[root] = [orgLevels[root] EXCEPT !.parent = k]
                 /\ \A q \in DOMAIN orgLevels \ {root} : orgLevels'[q] = orgLevels[q]
                 /\ OrgsAtLevel(orgs, root) # {} =>
                      \E r \in DOMAIN orgs' :
                        /\ OrgsAtLevel(orgs', k) = {r}
                        /\ OrgChildren(orgs', r) = OrgsAtLevel(orgs, root)]_vars

\* C5 witness: a new root tier was just added above a level that held two
\* Organizations, which are now the children of the one new root Organization
C5_Witness ==
    /\ last.op = "add_organization_level"
    /\ last.arg = None
    /\ last.exc = ""
    /\ Cardinality(DOMAIN orgLevels) >= 2
    /\ orgLevels[last.ret].parent = None
    /\ \E r \in OrgsAtLevel(orgs, last.ret) : Cardinality(OrgChildren(orgs, r)) = 2

\* a valid hierarchy, read off the parent links: one parentless root above
\* every level, each level below its parent's, no name twice
ValidHierarchy(lv) ==
    \/ DOMAIN lv = {}
    \/ /\ Cardinality(ParentlessLevels(lv)) = 1
       /\ \A p \in DOMAIN lv : \E n \in 0..Cardinality(DOMAIN lv) :
              LevelAncestor(lv, p, n) \in ParentlessLevels(lv)
       /\ \A p \in DOMAIN lv :
              lv[p].parent # None => lv[p].level < lv[lv[p].parent].level
       /\ \A p, q \in DOMAIN lv : lv[p].name = lv[q].name => p = q

\* C6: validate_orglevel_hierarchy returns exactly when the hierarchy is
\* valid (empty, or one parentless root from which every level is reached,
\* levels strictly decreasing, names distinct) and raises ValidationError
\* otherwise, whatever disable_validation_checks is (when it is set, a
\* warning is issued and the checks are made all the same).
C6_ValidateExact ==
    last.op = "validate_orglevel_hierarchy" =>
        /\ last.exc \in {"", "ValidationError"}
        /\ last.exc = "" <=> ValidHierarchy(orgLevels)
        /\ last.ret = Warned <=> olDisable

\* C6 witness: with the checks disabled, validation raised on a hierarchy
\* with one root whose child has too high a level
C6_Witness ==
    /\ last.op = "validate_orglevel_hierarchy"
    /\ last.exc = "ValidationError"
    /\ last.ret = Warned
    /\ olDisable = TRUE
    /\ Cardinality(ParentlessLevels(orgLevels)) = 1
    /\ \E p \in DOMAIN orgLevels :
          orgLevels[p].parent # None /\ orgLevels[p].level > orgLevels[orgLevels[p].parent].level

\* C7: with validation enabled, saving an OrganizationLevel (a new row, or a
\* stored row given another level) raises ValidationError and stores nothing
\* when its parent's level is not strictly greater than its own, or when it
\* has no parent while other OrganizationLevels exist.
C7_SaveRejects ==
    [][(last'.op \in {"create", "update_orglevel_from_dict"}) =>
       /\ \A n \in LevelNames, l \in LevelValues, p \in DOMAIN orgLevels \cup {None} :
            (/\ CreateLevel(n, l, p)
             /\ olDisable = FALSE
             /\ \/ p # None /\ ~(orgLevels[p].level > l)
                \/ p = None /\ DOMAIN orgLevels # {})
            => (last'.exc = "ValidationError" /\ orgLevels' = orgLevels)
       /\ \A pk \in DOMAIN orgLevels, l \in LevelValues :
            LET p == orgLevels[pk].parent IN
            (/\ UpdateLevel(pk, l)
             /\ olDisable = FALSE
             /\ \/ p # None /\ ~(orgLevels[p].level > l)
                \/ p = None /\ DOMAIN orgLevels \ {pk} # {})
            => (last'.exc = "ValidationError" /\ orgLevels' = orgLevels)]_vars

\* C7 witness: with validation enabled a parentless create was refused
\* although the only stored level is lower than every level a caller can give
C7_Witness ==
    /\ last.op = "create"
    /\ last.arg = None
    /\ last.exc = "ValidationError"
    /\ olDisable = FALSE
    /\ Cardinality(DOMAIN orgLevels) = 1
    /\ \A p \in DOMAIN orgLevels : orgLevels[p].level = 1

\* C8: creating an OrganizationLevel whose parent already has a child level
\* raises ValidationError and stores nothing, with the checks enabled and
\* with them disabled.
C8_SecondChildRejected ==
    [][(last'.op = "create") =>
       \A n \in LevelNames, l \in LevelValues, p \in DOMAIN orgLevels :
         (CreateLevel(n, l, p) /\ ChildLevels(orgLevels, p) # {})
         => (last'.exc = "ValidationError" /\ orgLevels' = orgLevels)]_vars

\* C8 witness: with the checks disabled, a create under a parent that has a
\* child was refused
C8_Witness ==
    /\ last.op = "create"
    /\ last.exc = "ValidationError"
    /\ olDisable = TRUE
    /\ last.arg \in DOMAIN orgLevels
    /\ ChildLevels(orgLevels, last.arg) # {}
    /\ Cardinality(DOMAIN orgLevels) = 2

\* C9: delete() on an OrganizationLevel that is the parent of another or the
\* organization_level of an Organization raises ProtectedError and leaves
\* every stored OrganizationLevel and Organization as it was.
C9_DeleteProtected ==
    [][(last'.op = "delete") =>
       \A p \in DOMAIN orgLevels :
         (/\ DeleteLevel(p)
          /\ ChildLevels(orgLevels, p) # {} \/ OrgsAtLevel(orgs, p) # {})
         => /\ last'.exc = "ProtectedError"
            /\ orgLevels' = orgLevels
            /\ orgs' = orgs]_vars

\* C9 witness: delete() was refused on a childless level because an
\* Organization refers to it
C9_Witness ==
    /\ last.op = "delete"
    /\ last.exc = "ProtectedError"
    /\ last.arg \in DOMAIN orgLevels
    /\ ChildLevels(orgLevels, last.arg) = {}
    /\ OrgsAtLevel(orgs, last.arg) # {}

\* p is the current leaf: the last row of the hierarchy list
IsLeafLevel(lv, p) ==
    LET list == HierarchyList(lv) IN list # <<>> /\ list[Len(list)] = p

\* the create returned, the new row is the hierarchy list's new last entry,
\* and deleting the new row gives back the table and the list of before
AppendedAndRestorable ==
    LET k == last'.ret
        d == LevelDelete([World EXCEPT !.lv = orgLevels', !.nlp = nextLevelPk'], k)
    IN /\ last'.exc = ""
       /\ HierarchyList(orgLevels') = Append(HierarchyList(orgLevels), k)
       /\ d.exc = ""
       /\ d.w.lv = orgLevels
       /\ HierarchyList(d.w.lv) = HierarchyList(orgLevels)

\* C10 as stated: with validation enabled, every create whose parent is the
\* current leaf and whose level is below the leaf's succeeds and appends the
\* row to the hierarchy list, and deleting the row restores the list.
C10_LeafCreateAppends ==
    [][(last'.op = "create") =>
       \A n \in LevelNames, l \in LevelValues, p \in DOMAIN orgLevels :
         (/\ CreateLevel(n, l, p)
          /\ olDisable = FALSE
          /\ IsLeafLevel(orgLevels, p)
          /\ l < orgLevels[p].level)
         => AppendedAndRestorable]_vars

\* C10 amended: with validation enabled, a create whose parent is the current
\* leaf, whose level is below the leaf's, and whose name and level value no
\* stored OrganizationLevel uses, succeeds and appends the row to the
\* hierarchy list; deleting the row, which no Organization refers to,
\* restores the table and the hierarchy list of before.
C10_FreshLeafCreateAppends ==
    [][(last'.op = "create") =>
       \A n \in LevelNames, l \in LevelValues, p \in DOMAIN orgLevels :
         (/\ CreateLevel(n, l, p)
          /\ olDisable = FALSE
          /\ IsLeafLevel(orgLevels, p)
          /\ l < orgLevels[p].level
          /\ \A q \in DOMAIN orgLevels : orgLevels[q].name # n /\ orgLevels[q].level # l)
         => AppendedAndRestorable]_vars

\* C10 witness: with validation enabled a create has just put a third row at
\* the end of the hierarchy list, under the former leaf
C10_Witness ==
    /\ last.op = "create"
    /\ last.exc = ""
    /\ olDisable = FALSE
    /\ last.arg # None
    /\ Len(HierarchyList(orgLevels)) = 3
    /\ IsLeafLevel(orgLevels, last.ret)
    /\ orgLevels[last.ret].parent = last.arg

\* C11: generate_orglevel_hierarchy_list returns the empty list when no
\* OrganizationLevel is parentless; otherwise the list starts with the root,
\* each later entry is the child of the entry before it, the last entry has
\* no child and no level is listed twice; for a valid hierarchy the list holds
\* every OrganizationLevel, in strictly decreasing level order.
C11_HierarchyListShape ==
    (last.op = "generate_orglevel_hierarchy_list" /\ last.exc = "") =>
    LET list == last.ret
        n == Len(list)
    IN /\ ParentlessLevels(orgLevels) = {} => list = <<>>
       /\ ParentlessLevels(orgLevels) # {} =>
            /\ n >= 1
            /\ list[1] = root_organization_level(orgLevels)
            /\ orgLevels[list[1]].parent = None
            /\ \A i \in 2..n : orgLevels[list[i]].parent = list[i - 1]
            /\ ChildLevels(orgLevels, list[n]) = {}
            /\ \A i, j \in 1..n : list[i] = list[j] => i = j
       /\ (DOMAIN orgLevels # {} /\ ValidHierarchy(orgLevels)) =>
            /\ {list[i] : i \in 1..n} = DOMAIN orgLevels
            /\ \A i \in 2..n : orgLevels[list[i]].level < orgLevels[list[i - 1]].level

\* C11 witness: the list of a valid hierarchy of three levels was returned
C11_Witness ==
    /\ last.op = "generate_orglevel_hierarchy_list"
    /\ last.exc = ""
    /\ Len(last.ret) = 3
    /\ ValidHierarchy(orgLevels)

\* C12: delete_organization_level on a level that is the organization_level
\* of some Organization raises ValidationError and leaves every stored
\* OrganizationLevel and Organization as it was.
C12_DeleteLevelInUse ==
    [][(last'.op = "delete_organization_level") =>
       \A p \in DOMAIN orgLevels :
         (DeleteOrganizationLevel(p) /\ OrgsAtLevel(orgs, p) # {})
         => /\ last'.exc = "ValidationError"
            /\ orgLevels' = orgLevels
            /\ orgs' = orgs]_vars

\* C12 witness: delete_organization_level was refused on a leaf level that an
\* Organization refers to (a level that a plain delete would not remove either)
C12_Witness ==
    /\ last.op = "delete_organization_level"
    /\ last.exc = "ValidationError"
    /\ OrgsAtLevel(orgs, last.arg) # {}
    /\ ChildLevels(orgLevels, last.arg) = {}
    /\ orgLevels[last.arg].parent # None

\* C13: add_organization_level raises ValidationError and leaves the stored
\* OrganizationLevels and Organizations unchanged when parent is None and
\* level is not greater than the root's level, when level is not less than
\* the given parent's level, or when the given parent has a child and level
\* is not greater than that child's level (stated from the outcome: a call
\* that ends in any other way was not made with such arguments).
C13_AddRejectsBadLevel ==
    [][(last'.op = "add_organization_level") =>
       \/ /\ last'.exc = "ValidationError"
          /\ orgLevels' = orgLevels
          /\ orgs' = orgs
       \/ \A n \in LevelNames, l \in LevelValues, p \in {last'.arg} :
            LET root == root_organization_level(orgLevels) IN
            (\/ p = None /\ root # None /\ ~(l > orgLevels[root].level)
             \/ p # None /\ ~(l < orgLevels[p].level)
             \/ /\ p # None
                /\ \E c \in ChildLevels(orgLevels, p) : ~(l > orgLevels[c].level))
            => \A order \in Orderings(VisitedOrgs(p)) :
                 \A x \in BOOLEAN : ~AddOrganizationLevel(n, l, p, x, order)]_vars

\* C13 witness: add_organization_level with a parent that has a child was
\* refused by its level comparisons (a save refused later in that branch
\* would have left disable_validation_checks set), with Organizations stored
C13_Witness ==
    /\ last.op = "add_organization_level"
    /\ last.exc = "ValidationError"
    /\ last.arg # None
    /\ ChildLevels(orgLevels, last.arg) # {}
    /\ olDisable = FALSE
    /\ orgs # <<>>

\* C14 (refuted by the code): an add_organization_level(name, level, parent,
\* export_to_xdmod) call that returns, returns a newly stored
\* OrganizationLevel whose name, level and export_to_xdmod are the arguments.
C14_ReturnsGivenFields ==
    [][(last'.op = "add_organization_level" /\ last'.exc = "") =>
       \A n \in LevelNames, l \in LevelValues, p \in {last'.arg}, x \in BOOLEAN :
         \A order \in Orderings(VisitedOrgs(p)) :
           AddOrganizationLevel(n, l, p, x, order) =>
             LET k == last'.ret IN
             /\ k \in DOMAIN orgLevels' \ DOMAIN orgLevels
             /\ orgLevels'[k].name = n
             /\ orgLevels'[k].level = l
             /\ orgLevels'[k].export_to_xdmod = x]_vars

\* the custom validation must refuse an Organization with this parent and
\* OrganizationLevel: below the root level without a parent, under a parent
\* whose level is not the parent of its own level, or at the root level
\* with a parent
MisplacedOrg(lv, og, parent, level) ==
    \/ lv[level].parent # None /\ parent = None
    \/ parent # None /\ og[parent].organization_level # lv[level].parent
    \/ lv[level].parent = None /\ parent # None

\* C15: with validation enabled, saving a new Organization raises
\* ValidationError and stores nothing when it is below the root level without
\* a parent, when its parent's OrganizationLevel is not the parent of its own,
\* or when it is at the root level with a parent; in every other case
\* Organization.clean accepts it, and it is stored unless a sibling has its
\* code, shortname or longname.
C15_OrgSaveValidation ==
    [][(last'.op = "Organization.create" /\ orgDisable = FALSE) =>
       \A p \in {last'.arg}, l \in DOMAIN orgLevels, c \in OrgCodes :
         CreateOrg(p, l, c) =>
           LET rec == Organization(p, l, c, c, c) IN
           IF MisplacedOrg(orgLevels, orgs, p, l)
           THEN last'.exc = "ValidationError" /\ orgs' = orgs
           ELSE /\ OrgClean(World, rec) = ""
                /\ (\A o \in OrgChildren(orgs, p) : orgs[o].code # c
                                                  /\ orgs[o].shortname # c
                                                  /\ orgs[o].longname # c)
                   => /\ last'.exc = ""
                      /\ orgs' = (last'.ret :> rec) @@ orgs]_vars

\* C15 witness: with validation enabled and no Organization stored (so that
\* no uniqueness check can fail), a parentless Organization was refused while
\* the hierarchy has three levels
C15_Witness ==
    /\ last.op = "Organization.create"
    /\ last.exc = "ValidationError"
    /\ last.arg = None
    /\ orgDisable = FALSE
    /\ orgs = <<>>
    /\ Cardinality(DOMAIN orgLevels) = 3

\* no two Organizations under one parent (or both parentless) share a code,
\* a shortname or a longname
SiblingNamesUnique(og) ==
    \A o1, o2 \in DOMAIN og :
        (o1 # o2 /\ og[o1].parent = og[o2].parent) =>
            /\ og[o1].code # og[o2].code
            /\ og[o1].shortname # og[o2].shortname
            /\ og[o1].longname # og[o2].longname

\* got is the requested name, or the requested name followed by a number
BeginsWith(got, requested) ==
    got = requested \/ \E i \in 1..(MaxOrgs + 1) : got = requested \o ToString(i)

\* C16: in every reachable state no two Organizations with the same parent
\* (or both parentless) have the same code, shortname or longname, whatever
\* Organization saves, add_organization_level, get_or_create_unknown_root and
\* create_unknown_object_for_dir_string calls were made; and
\* generate_unique_organization_names returns a code, shortname and longname
\* that begin with the requested values and that no current child of the
\* given parent uses.
C16_SiblingNamesUnique ==
    /\ SiblingNamesUnique(orgs)
    /\ last.op = "generate_unique_organization_names" =>
         LET children == OrgChildren(orgs, last.arg.parent) IN
         /\ BeginsWith(last.ret.code, last.arg.code)
         /\ BeginsWith(last.ret.shortname, last.arg.code)
         /\ BeginsWith(last.ret.longname, last.arg.code)
         /\ \A o \in children : /\ orgs[o].code # last.ret.code
                                /\ orgs[o].shortname # last.ret.shortname
                                /\ orgs[o].longname # last.ret.longname

\* C16 witness: generate_unique_organization_names had to number the code it
\* returned, because a child of the given parent has the requested code
C16_Witness ==
    /\ last.op = "generate_unique_organization_names"
    /\ last.ret.code # last.arg.code
    /\ \E o \in OrgChildren(orgs, last.arg.parent) : orgs[o].code = last.arg.code
    /\ dir2org # <<>>

\* o's ancestor n parent links up (None once the links run out)
RECURSIVE OrgAncestor(_, _, _)
OrgAncestor(og, o, n) ==
    IF n = 0 \/ o = None THEN o ELSE OrgAncestor(og, og[o].parent, n - 1)

\* the number of ancestors of o
OrgDepth(og, o) ==
    CHOOSE d \in 0..Cardinality(DOMAIN og) :
        OrgAncestor(og, o, d) # None /\ og[OrgAncestor(og, o, d)].parent = None

\* o's ancestors, topmost first, immediate parent last
TopDownAncestors(og, o) ==
    [i \in 1..OrgDepth(og, o) |-> OrgAncestor(og, o, OrgDepth(og, o) - i + 1)]

\* the codes of a sequence of Organizations
CodesOf(og, list) == [i \in 1..Len(list) |-> og[list[i]].code]

\* C17: for every stored Organization, fullcode() is the codes of its
\* ancestors from the topmost down to its parent, then its own code, joined
\* by hyphens; ancestors() is those ancestors in that order (topmost first,
\* immediate parent last), and empty for a parentless Organization.
C17_FullcodeAndAncestors ==
    /\ last.op = "fullcode" =>
         last.ret = JoinCodes(CodesOf(orgs, Append(TopDownAncestors(orgs, last.arg), last.arg)))
    /\ last.op = "ancestors" =>
         /\ last.ret = TopDownAncestors(orgs, last.arg)
         /\ orgs[last.arg].parent = None => last.ret = <<>>
         /\ orgs[last.arg].parent # None => last.ret[Len(last.ret)] = orgs[last.arg].parent

\* C17 witness: ancestors() was called on an Organization with a parent and a
\* grandparent
C17_Witness ==
    /\ last.op = "ancestors"
    /\ Len(last.ret) = 2
    /\ last.ret[1] # last.ret[2]

\* C18 (refuted by the code): get_organization_by_fullcode returns an
\* Organization whose fullcode() is the argument whenever one is stored, and
\* None when none is, for single codes as for hyphenated fullcodes.
C18_LookupByFullcode ==
    last.op = "get_organization_by_fullcode" =>
        IF \E o \in DOMAIN orgs : fullcode(orgs, o) = last.arg
        THEN last.ret \in DOMAIN orgs /\ fullcode(orgs, last.ret) = last.arg
        ELSE last.ret = None

\* the given Organizations plus, when addParents is set, everything reached
\* from them by following parent links
TargetOrgs(og, list, addParents) ==
    {OrgAncestor(og, list[i], n) :
        i \in 1..Len(list),
        n \in 0..(IF addParents THEN Cardinality(DOMAIN og) ELSE 0)} \ {None}

\* what C19 says of one call without dryrun: old and new are the associated
\* sets before and after, ret the dictionary returned
AssociationUpdated(old, new, ret, target, delete) ==
    /\ new = IF delete THEN target ELSE old \cup target
    /\ ret.added = target \ old

C20_RemovedIsWhatWasRemoved ==
    [][/\ last'.op = "update_user_organizations" =>
            IF last'.arg.dryrun
            THEN \A list \in OrgLists :
                    UpdateUserOrganizations(list, last'.arg.addParents, last'.arg.delete, TRUE) =>
                        last'.ret.removed = userOrgs \
                            update_user_organizations(World, list, last'.arg.addParents,
                                                      last'.arg.delete, FALSE).w.uo
            ELSE /\ last'.ret.removed = userOrgs \ userOrgs'
                 /\ last'.ret.removed \cap userOrgs' = {}
       /\ last'.op = "update_project_organizations" =>
            IF last'.arg.dryrun
            THEN \A list \in OrgLists :
                    UpdateProjectOrganizations(list, last'.arg.addParents, last'.arg.delete, TRUE) =>
                        last'.ret.removed = projOrgs \
                            update_project_organizations(World, list, last'.arg.addParents,
                                                         last'.arg.delete, FALSE).w.po
            ELSE /\ last'.ret.removed = projOrgs \ projOrgs'
                 /\ last'.ret.removed \cap projOrgs' = {}
      ]_vars

MappedOrgs(d2o, S) == {d2o[d] : d \in S \cap DOMAIN d2o}

\* o is a placeholder stored by this step for a directory string
NewPlaceholder(o) ==
    /\ o \in DOMAIN orgs' /\ o \notin DOMAIN orgs
    /\ orgs'[o].code = "Unknown_" \o ToString(o)
    /\ orgs'[o].parent # None

\* C22: convert_strings_to_orgs returns a list without duplicates that holds
\* the Organization Directory2Organization maps each given string to; a string
\* without mapping adds nothing when createUndefined is False and one
\* placeholder of its own when it is True (stored and mapped from the string,
\* or under dryrun unsaved).
C22_ConvertStrings ==
    [][(last'.op = "convert_strings_to_orgs" /\ last'.exc = "") =>
        LET a == last'.arg
            ret == last'.ret
            given == SetOf(a.strings)
            unmapped == given \ DOMAIN dir2org
        IN /\ \A i, j \in 1..Len(ret) : ret[i] = ret[j] => i = j
           /\ MappedOrgs(dir2org, given) \subseteq SetOf(ret)
           /\ ~a.createUndefined =>
                 SetOf(ret) = MappedOrgs(dir2org, given)
           /\ (a.createUndefined /\ ~a.dryrun) =>
                 /\ \A d \in unmapped : d \in DOMAIN dir2org' /\ NewPlaceholder(dir2org'[d])
                 /\ SetOf(ret) = MappedOrgs(dir2org, given) \cup {dir2org'[d] : d \in unmapped}
                 /\ Len(ret) = Cardinality(MappedOrgs(dir2org, given)) + Cardinality(unmapped)
           /\ (a.createUndefined /\ a.dryrun) =>
                 /\ SetOf(ret) = MappedOrgs(dir2org, given) \cup {DirHash[d] : d \in unmapped}
                 /\ Len(ret) = Cardinality(MappedOrgs(dir2org, given)) + Cardinality(unmapped)
      ]_vars

\* C22 witness: a call with createUndefined for two different strings
\* returned two stored Organizations
C22_Witness ==
    /\ last.op = "convert_strings_to_orgs" /\ last.exc = ""
    /\ last.arg.createUndefined /\ ~last.arg.dryrun
    /\ Len(last.arg.strings) = 2 /\ last.arg.strings[1] # last.arg.strings[2]
    /\ Len(last.ret) = 2
    /\ SetOf(last.ret) = {dir2org[d] : d \in DirStrings}

\* o is a top-level Unknown Organization: parentless, at the root level
TopLevelUnknown(lv, og, o) ==
    /\ o \in DOMAIN og
    /\ og[o].parent = None
    /\ og[o].organization_level = root_organization_level(lv)
    /\ BeginsWith(og[o].code, "Unknown")

\* C23 (refuted by the code): create_unknown_object_for_dir_string without
\* dryrun, for a string without mapping and in any valid hierarchy, stores a
\* new placeholder under the top-level Unknown Organization and maps the
\* string to it; a later convert_strings_to_orgs of mapped strings returns
\* the mapped Organizations and stores nothing.
C23_PlaceholderOncePerString ==
    [][/\ (/\ last'.op = "create_unknown_object_for_dir_string"
           /\ DOMAIN orgLevels # {} /\ ValidHierarchy(orgLevels)
           /\ LevelCorrespondence(orgLevels, orgs)
           /\ ~orgDisable /\ ~olDisable) =>
            \A d \in {last'.arg} \ DOMAIN dir2org :
               CreateUnknownObjectForDirString(d, FALSE) =>
                  /\ last'.exc = ""
                  /\ NewPlaceholder(last'.ret)
                  /\ TopLevelUnknown(orgLevels', orgs', orgs'[last'.ret].parent)
                  /\ dir2org' = (d :> last'.ret) @@ dir2org
       /\ (/\ last'.op = "convert_strings_to_orgs"
           /\ SetOf(last'.arg.strings) \subseteq DOMAIN dir2org) =>
            /\ last'.exc = ""
            /\ SetOf(last'.ret) = MappedOrgs(dir2org, SetOf(last'.arg.strings))
            /\ orgs' = orgs /\ dir2org' = dir2org
       /\ \A d \in DOMAIN dir2org : d \in DOMAIN dir2org' /\ dir2org'[d] = dir2org[d]
      ]_vars

\* the Organizations of user u
OrgsOfUser(u) == IF u = 1 THEN userOrgs ELSE user2Orgs

\* the stored Organizations whose fullcode is among the fullcodes given
GivenOrgs(fullcodes) ==
    {o \in DOMAIN orgs : \E i \in 1..Len(fullcodes) : fullcode(orgs, o) = fullcodes[i]}

\* C24 (refuted by the code): list_users_by_organization, given fullcodes of
\* stored Organizations, lists with --and exactly the users who belong to
\* every one of these Organizations, and without --and exactly the users who
\* belong to at least one of them.
C24_ListUsers ==
    (/\ last.op = "list_users_by_organization"
     /\ Len(last.arg.organization) >= 1
     /\ \A i \in 1..Len(last.arg.organization) :
           GivenOrgs(<<last.arg.organization[i]>>) # {})
    => /\ last.exc = ""
       /\ SetOf(last.ret) =
             IF last.arg.and
             THEN {u \in Users : GivenOrgs(last.arg.organization) \subseteq OrgsOfUser(u)}
             ELSE {u \in Users : GivenOrgs(last.arg.organization) \cap OrgsOfUser(u) # {}}

\* C25 (refuted by the code): add_organization_level and
\* delete_organization_level called while disable_validation_checks() is
\* False leave it False, whether they return or raise.
C25_DisableIsTemporary ==
    [][(/\ last'.op \in {"add_organization_level", "delete_organization_level"}
        /\ ~olDisable)
       => ~olDisable']_vars

\* C26 (refuted by the code): after any sequence of Organization saves with
\* validation enabled, saves of stored Organizations with another parent or
\* organization_level included, no Organization is its own ancestor.
C26_NoOrgIsOwnAncestor ==
    ~orgDisable =>
        \A o \in DOMAIN orgs : \A n \in 1..Cardinality(DOMAIN orgs) :
            OrgAncestor(orgs, o, n) # o

\* o is a stored Organization at the current root level
StoredAtRootLevel(o) ==
    /\ o \in DOMAIN orgs
    /\ orgs[o].organization_level = root_organization_level(orgLevels)

\* C27 (refuted by the code): whenever the cached top-level Unknown
\* Organization is not None it is a stored Organization at the current root
\* level, and what get_or_create_unknown_root returns is one too.
C27_CachedUnknownIsValid ==
    /\ cachedUnknown # None => StoredAtRootLevel(cachedUnknown)
    /\ (last.op = "get_or_create_unknown_root" /\ last.exc = "" /\ last.ret # None)
          => StoredAtRootLevel(last.ret)
====
